---- MODULE Spec2Model ----
(***************************************************************************)
(* A model of the Streamtape API client (src/src/streamtape/client.py):    *)
(* the client configuration, the request primitive _request, the endpoint  *)
(* methods, the chunked SHA-256 of _calculate_sha256 and the two-step      *)
(* upload_file.  A call is a coroutine; it suspends only where the code    *)
(* awaits the HTTP transport, so one action runs a call from one           *)
(* suspension point to the next.                                           *)
(***************************************************************************)
EXTENDS Integers, Sequences, FiniteSets, TLC

VARIABLES
    base_url,         \* self.base_url
    login,            \* self.login
    key,              \* self.key
    timeout,          \* self.timeout
    datetime_format,  \* self.datetime_format
    chunk_size,       \* self.chunk_size
    fs,               \* the local files: path -> bytes
    call,             \* the in-flight calls: slot -> the coroutine's frame
    env               \* per slot: what the caller invoked, what the transport
                      \* and the file system answered to that call

vars == <<base_url, login, key, timeout, datetime_format, chunk_size, fs, call, env>>

cfgvars == <<base_url, login, key, timeout, datetime_format, chunk_size>>

-----------------------------------------------------------------------------
(* Python values that travel as parameters: None, str and bool.            *)

None == [py |-> "None"]

Str(s) == [py |-> "str", v |-> s]

Bool(b) == [py |-> "bool", v |-> b]

\* Python truth value, as used by `x or y` and `if x`.
Truthy(x) ==
    CASE x.py = "None" -> FALSE
      [] x.py = "str"  -> x.v # ""
      [] x.py = "bool" -> x.v
      [] OTHER         -> TRUE

\* Python `a or b`.
Or(a, b) == IF Truthy(a) THEN a ELSE b

-----------------------------------------------------------------------------
(* Class constants, client.py:14-17.                                       *)

BASE_URL == "https://api.streamtape.com"

TIMEOUT == 30

\* "%Y-%m-%d %H:%M:%S" as strptime reads it: directives and literal characters.
DATETIME_FORMAT == <<"%Y", "-", "%m", "-", "%d", " ", "%H", ":", "%M", ":", "%S">>

CHUNK_SIZE == 4096

-----------------------------------------------------------------------------
(* Bounds of the model.                                                    *)

\* Longest file, in bytes.
MaxLen == 3

\* Largest byte value that occurs in a file.
MaxByte == 1

\* Number of call slots that run concurrently in SpecConc.
NumSlots == 2

Bytes == 0..MaxByte

RECURSIVE SeqsUpTo(_, _)
SeqsUpTo(S, n) ==
    IF n = 0 THEN {<<>>}
    ELSE LET shorter == SeqsUpTo(S, n - 1)
         IN  shorter \cup {Append(s, b) : s \in {t \in shorter : Len(t) = n - 1}, b \in S}

Contents == SeqsUpTo(Bytes, MaxLen)

\* Chunk sizes a caller may hand to the constructor: it takes any int.
ChunkSizes == (-1..(MaxLen + 1)) \cup {CHUNK_SIZE}

-----------------------------------------------------------------------------
(* hashlib.sha256: an accumulator that is fed bytes and gives a hex        *)
(* digest.  The compression function is replaced by a 24-bit polynomial    *)
(* that is collision-free on the bounded files; `fed` records the bytes    *)
(* the accumulator has been given, in order.                               *)

HexDigits == <<"0", "1", "2", "3", "4", "5", "6", "7", "8", "9", "a", "b", "c", "d", "e", "f">>

RECURSIVE ToHex(_, _)
ToHex(n, width) ==
    IF width = 0 THEN "" ELSE ToHex(n \div 16, width - 1) \o HexDigits[(n % 16) + 1]

sha256_new == [h |-> 7, fed |-> <<>>]

RECURSIVE sha256_update(_, _)
sha256_update(acc, chunk) ==
    IF chunk = <<>> THEN acc
    ELSE sha256_update(
            [h |-> (acc.h * 31 + Head(chunk) + 1) % 16777216,
             fed |-> Append(acc.fed, Head(chunk))],
            Tail(chunk))

hexdigest(acc) == ToHex(acc.h, 6)

\* The digest of a whole byte string, hashlib.sha256(data).hexdigest().
Sha256Hex(data) == hexdigest(sha256_update(sha256_new, data))

-----------------------------------------------------------------------------
(* _calculate_sha256, client.py:67-77.                                     *)

\* f.read(n) at offset pos: the next n bytes, all the rest when n < 0,
\* nothing when n = 0 or at the end of the file.
FileRead(content, pos, n) ==
    IF n < 0 THEN SubSeq(content, pos + 1, Len(content))
    ELSE SubSeq(content, pos + 1, IF pos + n > Len(content) THEN Len(content) ELSE pos + n)

\* The loop ended by the first chunk shorter than asked for, which is dropped.
RECURSIVE HashLoopStopOnShort(_, _, _, _, _)
HashLoopStopOnShort(content, pos, n, acc, reads) ==
    LET chunk == FileRead(content, pos, n)
    IN  IF chunk = <<>> \/ (n > 0 /\ Len(chunk) < n)
        THEN [acc |-> acc, reads |-> reads + 1]
        ELSE HashLoopStopOnShort(content, pos + Len(chunk), n,
                                 sha256_update(acc, chunk), reads + 1)

\* The `while True` loop: read a chunk, stop on an empty one, else update.
\* `reads` counts the calls of f.read.
RECURSIVE HashLoop(_, _, _, _, _)
HashLoop(content, pos, n, acc, reads) ==
    LET chunk == FileRead(content, pos, n)
    IN  IF chunk = <<>>
        THEN [acc |-> acc, reads |-> reads + 1]
        ELSE HashLoop(content, pos + Len(chunk), n, sha256_update(acc, chunk), reads + 1)

-----------------------------------------------------------------------------
(* datetime.strptime, as _str_to_datetime (client.py:64-65) uses it.  A    *)
(* timestamp string is its sequence of characters; a format is its         *)
(* sequence of directives and literal characters.  Each directive takes    *)
(* the digits its regular expression takes: four for %Y, two when they     *)
(* form a value of the field, else one.  The formats used here separate    *)
(* the directives by literals, so no backtracking into a directive occurs. *)

DigitVal ==
    "0" :> 0 @@ "1" :> 1 @@ "2" :> 2 @@ "3" :> 3 @@ "4" :> 4 @@
    "5" :> 5 @@ "6" :> 6 @@ "7" :> 7 @@ "8" :> 8 @@ "9" :> 9

IsDigitAt(s, j) == j <= Len(s) /\ s[j] \in DOMAIN DigitVal

Directives == {"%Y", "%m", "%d", "%H", "%M", "%S"}

FieldOf(d) ==
    CASE d = "%Y" -> "year" [] d = "%m" -> "month" [] d = "%d" -> "day"
      [] d = "%H" -> "hour" [] d = "%M" -> "minute" [] d = "%S" -> "second"

\* The values the two-digit and the one-digit alternatives of a directive match.
TwoDigitRange(d) ==
    CASE d = "%m" -> 1..12 [] d = "%d" -> 1..31 [] d = "%H" -> 0..23
      [] d = "%M" -> 0..59 [] d = "%S" -> 0..61

OneDigitRange(d) == IF d \in {"%m", "%d"} THEN 1..9 ELSE 0..9

\* One directive matched at position j of s: [ok, val, next].
TakeDirective(d, s, j) ==
    IF d = "%Y"
    THEN IF \A k \in 0..3 : IsDigitAt(s, j + k)
         THEN [ok |-> TRUE,
               val |-> DigitVal[s[j]] * 1000 + DigitVal[s[j + 1]] * 100
                       + DigitVal[s[j + 2]] * 10 + DigitVal[s[j + 3]],
               next |-> j + 4]
         ELSE [ok |-> FALSE, val |-> 0, next |-> j]
    ELSE IF IsDigitAt(s, j) /\ IsDigitAt(s, j + 1)
            /\ (DigitVal[s[j]] * 10 + DigitVal[s[j + 1]]) \in TwoDigitRange(d)
         THEN [ok |-> TRUE, val |-> DigitVal[s[j]] * 10 + DigitVal[s[j + 1]], next |-> j + 2]
         ELSE IF IsDigitAt(s, j) /\ DigitVal[s[j]] \in OneDigitRange(d)
              THEN [ok |-> TRUE, val |-> DigitVal[s[j]], next |-> j + 1]
              ELSE [ok |-> FALSE, val |-> 0, next |-> j]

\* datetime(1900, 1, 1): the fields a format does not name.
DatetimeDefault ==
    [year |-> 1900, month |-> 1, day |-> 1, hour |-> 0, minute |-> 0, second |-> 0]

IsLeap(y) == (y % 4 = 0 /\ y % 100 # 0) \/ y % 400 = 0

DaysInMonth(y, m) ==
    IF m = 2 THEN (IF IsLeap(y) THEN 29 ELSE 28)
    ELSE IF m \in {4, 6, 9, 11} THEN 30 ELSE 31

\* The datetime constructor's own check of the parsed fields.
ValidDatetime(dt) ==
    /\ dt.year \in 1..9999
    /\ dt.day <= DaysInMonth(dt.year, dt.month)
    /\ dt.second <= 59

\* The format from token i on against the string from character j on.
RECURSIVE StrptimeFrom(_, _, _, _, _)
StrptimeFrom(fmt, s, i, j, dt) ==
    IF i > Len(fmt)
    THEN IF j > Len(s) /\ ValidDatetime(dt)
         THEN [ok |-> TRUE, dt |-> dt]
         ELSE [ok |-> FALSE, dt |-> DatetimeDefault]      \* unconverted data remains
    ELSE IF fmt[i] \in Directives
         THEN LET t == TakeDirective(fmt[i], s, j)
              IN  IF t.ok
                  THEN StrptimeFrom(fmt, s, i + 1, t.next,
                                    [dt EXCEPT ![FieldOf(fmt[i])] = t.val])
                  ELSE [ok |-> FALSE, dt |-> DatetimeDefault]
         ELSE IF j <= Len(s) /\ s[j] = fmt[i]
              THEN StrptimeFrom(fmt, s, i + 1, j + 1, dt)
              ELSE [ok |-> FALSE, dt |-> DatetimeDefault]

\* ok = FALSE is the ValueError strptime raises.
str_to_datetime(datetime_string, fmt) == StrptimeFrom(fmt, datetime_string, 1, 1, DatetimeDefault)

-----------------------------------------------------------------------------
(* StreamtapeError, exceptions.py:1-8.                                     *)

StreamtapeError(status_code, message) ==
    [kind |-> "StreamtapeError", status_code |-> status_code, message |-> message,
     text |-> ToString(status_code) \o " - " \o message]

-----------------------------------------------------------------------------
(* The request primitive, client.py:37-62.                                 *)

Dict(d) == [py |-> "dict", v |-> d]

\* url = base_url if base_url else self.base_url; if endpoint: url += endpoint
TargetUrl(self_base_url, base_url_arg, endpoint) ==
    LET url == IF Truthy(base_url_arg) THEN base_url_arg.v ELSE self_base_url
    IN  IF Truthy(endpoint) THEN url \o endpoint.v ELSE url

\* How the transport writes one parameter value into the query string:
\* httpx gives true/false for booleans, the empty string for None, str(v) else.
primitive_value_to_str(value) ==
    CASE value.py = "bool" -> (IF value.v THEN "true" ELSE "false")
      [] value.py = "None" -> ""
      [] OTHER             -> value.v

\* The query string the transport sends for `params`: one item per key of the
\* mapping it was handed; no item when params is None.
QueryOf(params) ==
    IF params.py = "None" THEN <<>>
    ELSE [k \in DOMAIN params.v |-> primitive_value_to_str(params.v[k])]

\* The call of self._client.request(method=, url=, params=, files=).
BuildRequest(self_base_url, method, base_url_arg, endpoint, params, files) ==
    [method |-> method,
     url    |-> TargetUrl(self_base_url, base_url_arg, endpoint),
     params |-> params,
     query  |-> QueryOf(params),
     files  |-> files]

\* response.raise_for_status(): an error unless the HTTP status is 2xx.
HttpSuccess(http) == 200 <= http /\ http <= 299

\* if not 200 <= status < 300
EnvelopeSuccess(status) == 200 <= status /\ status < 300

\* _request with the upper bound of the success range included: status 300
\* passes as a success.
RequestOutcomeUpTo300(resp) ==
    IF resp.conn # "ok"
    THEN [kind |-> "TransportError", exc |-> "ConnectError"]
    ELSE IF ~HttpSuccess(resp.http)
    THEN [kind |-> "TransportError", exc |-> "HTTPStatusError"]
    ELSE IF ~resp.json
    THEN [kind |-> "JSONDecodeError"]
    ELSE IF ~(200 <= resp.status /\ resp.status <= 300)
    THEN StreamtapeError(resp.status, resp.msg)
    ELSE [kind |-> "return", value |-> resp.result]

\* _request that takes only status 200 for a success.
RequestOutcomeOnly200(resp) ==
    IF resp.conn # "ok"
    THEN [kind |-> "TransportError", exc |-> "ConnectError"]
    ELSE IF ~HttpSuccess(resp.http)
    THEN [kind |-> "TransportError", exc |-> "HTTPStatusError"]
    ELSE IF ~resp.json
    THEN [kind |-> "JSONDecodeError"]
    ELSE IF resp.status # 200
    THEN StreamtapeError(resp.status, resp.msg)
    ELSE [kind |-> "return", value |-> resp.result]

\* _request that decodes the envelope before it looks at the HTTP status.
RequestOutcomeDecodeFirst(resp) ==
    IF resp.conn # "ok"
    THEN [kind |-> "TransportError", exc |-> "ConnectError"]
    ELSE IF resp.json /\ ~EnvelopeSuccess(resp.status)
    THEN StreamtapeError(resp.status, resp.msg)
    ELSE IF ~HttpSuccess(resp.http)
    THEN [kind |-> "TransportError", exc |-> "HTTPStatusError"]
    ELSE IF ~resp.json
    THEN [kind |-> "JSONDecodeError"]
    ELSE [kind |-> "return", value |-> resp.result]

\* What _request does with the transport's answer: raise what the transport
\* raises, else decode the envelope, raise StreamtapeError or return result.
RequestOutcome(resp) ==
    IF resp.conn # "ok"
    THEN [kind |-> "TransportError", exc |-> "ConnectError"]
    ELSE IF ~HttpSuccess(resp.http)
    THEN [kind |-> "TransportError", exc |-> "HTTPStatusError"]
    ELSE IF ~resp.json
    THEN [kind |-> "JSONDecodeError"]
    ELSE IF ~EnvelopeSuccess(resp.status)
    THEN StreamtapeError(resp.status, resp.msg)
    ELSE [kind |-> "return", value |-> resp.result]

-----------------------------------------------------------------------------
(* The endpoint methods, client.py:79-555.                                 *)

SingleCallMethods ==
    {"get_account_info", "get_download_ticket", "get_download_link", "get_file_info",
     "remote_upload", "remove_remote_upload", "get_remote_upload_status",
     "get_files_and_folders", "create_folder", "rename_folder", "delete_folder",
     "rename_file", "move_file", "delete_file", "get_running_converts",
     "get_failed_converts", "get_thumbnail_image"}

Methods == SingleCallMethods \cup {"upload_file"}

\* The methods that take login and key: all but get_download_link.
CredentialMethods == Methods \ {"get_download_link"}

\* The endpoint each method names.
EndpointOf(m) ==
    CASE m = "get_account_info"         -> "/account/info"
      [] m = "get_download_ticket"      -> "/file/dlticket"
      [] m = "get_download_link"        -> "/file/dl"
      [] m = "get_file_info"            -> "/file/info"
      [] m = "upload_file"              -> "/file/ul"
      [] m = "remote_upload"            -> "/remotedl"
      [] m = "remove_remote_upload"     -> "/file/info"
      [] m = "get_remote_upload_status" -> "/remotedl/status"
      [] m = "get_files_and_folders"    -> "/file/listfolder"
      [] m = "create_folder"            -> "/file/createfolder"
      [] m = "rename_folder"            -> "/file/renamefolder"
      [] m = "delete_folder"            -> "/file/deletefolder"
      [] m = "rename_file"              -> "/file/rename"
      [] m = "move_file"                -> "/file/move"
      [] m = "delete_file"              -> "/file/delete"
      [] m = "get_running_converts"     -> "/file/runningconverts"
      [] m = "get_failed_converts"      -> "/file/failedconverts"
      [] m = "get_thumbnail_image"      -> "/file/getsplash"

\* ",".join(file)
RECURSIVE Join(_, _)
Join(sep, items) ==
    IF items = <<>> THEN ""
    ELSE IF Len(items) = 1 THEN items[1]
    ELSE items[1] \o sep \o Join(sep, Tail(items))

\* The precedence reversed: self.login or login, self.key or key.
CredentialsDefaultFirst(a, self_login, self_key) ==
    [login |-> Or(self_login, a.login), key |-> Or(self_key, a.key)]

\* "login": login or self.login, "key": key or self.key
Credentials(a, self_login, self_key) ==
    [login |-> Or(a.login, self_login), key |-> Or(a.key, self_key)]

\* The params mapping each method builds; sha is the digest upload_file computed.
ParamsOf(m, a, self_login, self_key, sha) ==
    LET cred == Credentials(a, self_login, self_key)
    IN  CASE m \in {"get_account_info", "get_running_converts", "get_failed_converts"} ->
               cred
          [] m \in {"get_download_ticket", "delete_file", "get_thumbnail_image"} ->
               [login |-> cred.login, key |-> cred.key, file |-> a.file]
          [] m = "get_download_link" ->
               [file |-> a.file, ticket |-> a.ticket]
          [] m = "get_file_info" ->
               [login |-> cred.login, key |-> cred.key, file |-> Str(Join(",", a.file))]
          [] m = "upload_file" ->
               [login |-> cred.login, key |-> cred.key, folder |-> a.folder,
                sha256 |-> Str(sha), httponly |-> a.httponly]
          [] m = "remote_upload" ->
               [login |-> cred.login, key |-> cred.key, url |-> a.url,
                folder |-> a.folder, headers |-> a.headers, name |-> a.name]
          [] m \in {"remove_remote_upload", "get_remote_upload_status"} ->
               [login |-> cred.login, key |-> cred.key, id |-> a.upload_id]
          [] m \in {"get_files_and_folders", "delete_folder"} ->
               [login |-> cred.login, key |-> cred.key, folder |-> a.folder]
          [] m = "create_folder" ->
               [login |-> cred.login, key |-> cred.key, name |-> a.name,
                pid |-> a.parent_folder]
          [] m = "rename_folder" ->
               [login |-> cred.login, key |-> cred.key, folder |-> a.folder,
                name |-> a.name]
          [] m = "rename_file" ->
               [login |-> cred.login, key |-> cred.key, file |-> a.file, name |-> a.name]
          [] m = "move_file" ->
               [login |-> cred.login, key |-> cred.key, file |-> a.file,
                folder |-> a.folder]

\* The request a method's (first) call of _request sends.
FirstRequest(self_base_url, m, a, self_login, self_key, sha) ==
    BuildRequest(self_base_url, "GET", None, Str(EndpointOf(m)),
                 Dict(ParamsOf(m, a, self_login, self_key, sha)), None)

\* upload_file's second call: POST to result["url"] with the opened file.
TransferRequest(self_base_url, url, handle) ==
    BuildRequest(self_base_url, "POST", Str(url), None, None, Dict([file1 |-> handle]))

\* A dict without one key, and with one key set.
DictPop(d, k) == [x \in DOMAIN d \ {k} |-> d[x]]

DictSet(d, k, val) == [x \in DOMAIN d \cup {k} |-> IF x = k THEN val ELSE d[x]]

Returned(value) == [kind |-> "return", value |-> value]

KeyError(k) == [kind |-> "KeyError", key |-> k]

ValueError == [kind |-> "ValueError"]

\* get_account_info after _request returned: client.py:100-103.
AccountInfoTransform(result, fmt) ==
    IF "apiid" \notin DOMAIN result THEN KeyError("apiid")
    ELSE LET renamed == DictSet(DictPop(result, "apiid"), "api_id", result.apiid)
         IN  IF "signup_at" \notin DOMAIN renamed THEN KeyError("signup_at")
             ELSE LET t == str_to_datetime(renamed.signup_at, fmt)
                  IN  IF ~t.ok THEN ValueError
                      ELSE Returned(DictSet(renamed, "signup_at", t.dt))

\* get_remote_upload_status after _request returned: client.py:300-302.
RemoteUploadStatusTransform(result, fmt) ==
    IF "added" \notin DOMAIN result THEN KeyError("added")
    ELSE LET a == str_to_datetime(result.added, fmt)
         IN  IF ~a.ok THEN ValueError
             ELSE LET r1 == DictSet(result, "added", a.dt)
                  IN  IF "last_update" \notin DOMAIN r1 THEN KeyError("last_update")
                      ELSE LET u == str_to_datetime(r1.last_update, fmt)
                           IN  IF ~u.ok THEN ValueError
                               ELSE Returned(DictSet(r1, "last_update", u.dt))

\* What a single-call method does with the outcome of its _request.
MethodOutcome(m, out, fmt) ==
    IF out.kind # "return" THEN out
    ELSE CASE m = "get_account_info"         -> AccountInfoTransform(out.value, fmt)
           [] m = "get_remote_upload_status" -> RemoteUploadStatusTransform(out.value, fmt)
           [] OTHER                          -> out

-----------------------------------------------------------------------------
(* A call's frame: the coroutine's position and local variables, with the  *)
(* requests it has sent, the responses it has received, the file handles   *)
(* it has opened and the steps it has taken.                               *)

Slots == 1..NumSlots

NoOutcome == [kind |-> "none"]

NoHash == [hex |-> "", fed |-> <<>>, reads |-> 0]

IdleFrame ==
    [pc |-> "idle", method |-> "", args |-> <<>>, phase |-> "", sent |-> <<>>,
     recv |-> <<>>, outcome |-> NoOutcome, handles |-> <<>>, trace |-> <<>>,
     hash |-> NoHash]

\* One frame for all calls, as if the locals were kept on the client.
SharedFrame(c, p) == c[1]

\* The frame a call runs in: its own local variables.
Frame(c, p) == c[p]

Last(s) == s[Len(s)]

OSError == [kind |-> "OSError"]

Handle(purpose, closed) == [purpose |-> purpose, closed |-> closed]

\* _calculate_sha256(file_path) on the file system: open() raises for a
\* missing or unreadable file; a failing read leaves the `with` block, which
\* closes the handle; else the loop runs to the end and the handle is closed.
HashFileOutcome(files, path, n, io) ==
    IF path \notin DOMAIN files \/ io = "open_fails"
    THEN [ok |-> FALSE, hash |-> NoHash, handles |-> <<>>]
    ELSE IF io = "read_fails"
    THEN [ok |-> FALSE, hash |-> NoHash, handles |-> <<Handle("hash", TRUE)>>]
    ELSE LET l == HashLoop(files[path], 0, n, sha256_new, 0)
         IN  [ok |-> TRUE,
              hash |-> [hex |-> hexdigest(l.acc), fed |-> l.acc.fed, reads |-> l.reads],
              handles |-> <<Handle("hash", TRUE)>>]

\* A method from its first line to its first await (or to the exception that
\* ends it before): upload_file hashes the file while it builds params.
StartCall(m, a, io, self_base_url, self_login, self_key, n, files) ==
    LET f0 == [IdleFrame EXCEPT !.method = m, !.args = a]
    IN  IF m = "upload_file"
        THEN LET h == HashFileOutcome(files, a.file_path, n, io)
                 f1 == [f0 EXCEPT !.handles = h.handles, !.hash = h.hash,
                                  !.trace = <<"hash">>]
             IN  IF ~h.ok
                 THEN [f1 EXCEPT !.pc = "done", !.outcome = OSError]
                 ELSE [f1 EXCEPT !.pc = "await", !.phase = "negotiate",
                                 !.trace = <<"hash", "negotiate">>,
                                 !.sent = <<FirstRequest(self_base_url, m, a, self_login,
                                                         self_key, h.hash.hex)>>]
        ELSE [f0 EXCEPT !.pc = "await", !.phase = "single",
                        !.sent = <<FirstRequest(self_base_url, m, a, self_login,
                                                self_key, "")>>]

\* upload_file that opens the file before it looks at the negotiate outcome.
AfterNegotiateOpenFirst(g, out, io, self_base_url, files) ==
    LET o == [g EXCEPT !.handles = Append(@, Handle("transfer", FALSE)),
                       !.trace = Append(@, "open")]
    IN  IF out.kind # "return"
        THEN [o EXCEPT !.pc = "done", !.outcome = out]
        ELSE IF "url" \notin DOMAIN out.value
        THEN [o EXCEPT !.pc = "done", !.outcome = KeyError("url")]
        ELSE [o EXCEPT !.phase = "transfer",
                       !.trace = Append(@, "transfer"),
                       !.sent = Append(@, TransferRequest(self_base_url, out.value.url,
                                                          Len(g.handles) + 1))]

\* upload_file after its first _request: client.py:211.  result["url"] is
\* read, then the file is opened, then the POST is sent and awaited.
AfterNegotiate(g, out, io, self_base_url, files) ==
    IF out.kind # "return"
    THEN [g EXCEPT !.pc = "done", !.outcome = out]
    ELSE IF "url" \notin DOMAIN out.value
    THEN [g EXCEPT !.pc = "done", !.outcome = KeyError("url")]
    ELSE IF g.args.file_path \notin DOMAIN files \/ io = "open_fails"
    THEN [g EXCEPT !.pc = "done", !.outcome = OSError, !.trace = Append(@, "open")]
    ELSE [g EXCEPT !.phase = "transfer",
                   !.handles = Append(@, Handle("transfer", FALSE)),
                   !.trace = @ \o <<"open", "transfer">>,
                   !.sent = Append(@, TransferRequest(self_base_url, out.value.url,
                                                      Len(g.handles) + 1))]

\* A call that sends its request once more after a first Transport Error.
ContinueRetry(f, r, io, self_base_url, fmt, files) ==
    LET out == RequestOutcome(r)
        g   == [f EXCEPT !.recv = Append(@, r)]
    IN  IF out.kind = "TransportError" /\ Len(f.recv) = 0
        THEN [g EXCEPT !.sent = Append(@, Last(f.sent))]
        ELSE CASE f.phase = "single" ->
                    [g EXCEPT !.pc = "done", !.outcome = MethodOutcome(f.method, out, fmt)]
               [] f.phase = "negotiate" ->
                    AfterNegotiate(g, out, io, self_base_url, files)
               [] f.phase = "transfer" ->
                    [g EXCEPT !.pc = "done", !.outcome = out]

\* A call from the await it is suspended at to its next await or its end.
Continue(f, r, io, self_base_url, fmt, files) ==
    LET out == RequestOutcome(r)
        g   == [f EXCEPT !.recv = Append(@, r)]
    IN  CASE f.phase = "single" ->
               [g EXCEPT !.pc = "done", !.outcome = MethodOutcome(f.method, out, fmt)]
          [] f.phase = "negotiate" ->
               AfterNegotiate(g, out, io, self_base_url, files)
          [] f.phase = "transfer" ->
               [g EXCEPT !.pc = "done", !.outcome = out]

-----------------------------------------------------------------------------
(* The inputs: arguments of the calls and answers of the remote side.      *)

LoginArgs == {None, Str(""), Str("al")}

KeyArgs == {None, Str("ak")}

FolderArgs == {None, Str("fo")}

ArgsOf(m) ==
    CASE m \in {"get_account_info", "get_running_converts", "get_failed_converts"} ->
           [login : LoginArgs, key : KeyArgs]
      [] m \in {"get_download_ticket", "delete_file", "get_thumbnail_image"} ->
           [file : {Str("F1")}, login : LoginArgs, key : KeyArgs]
      [] m = "get_download_link" ->
           [file : {Str("F1")}, ticket : {Str("T1")}]
      [] m = "get_file_info" ->
           [file : {<<"a">>, <<"a", "b", "c">>}, login : LoginArgs, key : KeyArgs]
      [] m = "upload_file" ->
           [file_path : {"f1", "nofile"}, folder : FolderArgs,
            httponly : {None, Bool(TRUE)}, login : LoginArgs, key : KeyArgs]
      [] m = "remote_upload" ->
           [url : {Str("http://r/x")}, folder : FolderArgs,
            headers : {None, [py |-> "dict", v |-> "{'h': '1'}"]},
            name : {None, Str("nm")}, login : LoginArgs, key : KeyArgs]
      [] m \in {"remove_remote_upload", "get_remote_upload_status"} ->
           [upload_id : {Str("U1")}, login : LoginArgs, key : KeyArgs]
      [] m = "get_files_and_folders" ->
           [folder : FolderArgs, login : LoginArgs, key : KeyArgs]
      [] m = "delete_folder" ->
           [folder : {Str("fo")}, login : LoginArgs, key : KeyArgs]
      [] m = "create_folder" ->
           [name : {Str("nm")}, parent_folder : FolderArgs, login : LoginArgs,
            key : KeyArgs]
      [] m = "rename_folder" ->
           [folder : {Str("fo")}, name : {Str("nm")}, login : LoginArgs, key : KeyArgs]
      [] m = "rename_file" ->
           [file : {Str("F1")}, name : {Str("nm")}, login : LoginArgs, key : KeyArgs]
      [] m = "move_file" ->
           [file : {Str("F1")}, folder : {Str("fo")}, login : LoginArgs, key : KeyArgs]

\* "2020-01-02 03:04:05", "2021-12-31 23:59:59" and "02/01/2020".
TS1 == <<"2", "0", "2", "0", "-", "0", "1", "-", "0", "2", " ",
         "0", "3", ":", "0", "4", ":", "0", "5">>

TS2 == <<"2", "0", "2", "1", "-", "1", "2", "-", "3", "1", " ",
         "2", "3", ":", "5", "9", ":", "5", "9">>

TSAlt == <<"0", "2", "/", "0", "1", "/", "2", "0", "2", "0">>

\* "%d/%m/%Y"
AltFormat == <<"%d", "/", "%m", "/", "%Y">>

AccountResults ==
    {[apiid |-> "X1", email |-> "e@x", signup_at |-> TS1],
     [apiid |-> "X1", email |-> "e@x", signup_at |-> TSAlt],
     [email |-> "e@x", signup_at |-> TS1]}

StatusResults ==
    {[id |-> "U1", added |-> TS1, last_update |-> TS2],
     [id |-> "U1", added |-> TSAlt, last_update |-> TSAlt],
     [id |-> "U1", added |-> TS1]}

UploadUrl == "https://up.example/ul"

NegotiateResults ==
    {[url |-> UploadUrl, valid_until |-> "v"], [url |-> ""], [valid_until |-> "v"]}

GenericResults == {[value |-> "r1"], [value |-> "r2"]}

ResultsFor(url) ==
    CASE url = BASE_URL \o "/account/info"    -> AccountResults
      [] url = BASE_URL \o "/remotedl/status" -> StatusResults
      [] url = BASE_URL \o "/file/ul"         -> NegotiateResults
      [] OTHER                                -> GenericResults

SomeResult(url) == CHOOSE r \in ResultsFor(url) : TRUE

ConnError ==
    [conn |-> "error", http |-> 0, json |-> FALSE, status |-> 0, msg |-> "",
     result |-> [value |-> ""]]

Resp(http, json, status, msg, result) ==
    [conn |-> "ok", http |-> http, json |-> json, status |-> status, msg |-> msg,
     result |-> result]

\* The answers the transport may give to a request for url: no connection,
\* any HTTP status with any body, an envelope of any status.
Responses(url) ==
    {ConnError}
    \cup {Resp(h, FALSE, 0, "", [value |-> ""]) : h \in {200, 404}}
    \cup {Resp(h, TRUE, e[1], e[2], SomeResult(url)) :
             h \in {300, 404}, e \in {<<200, "OK">>, <<403, "denied">>}}
    \cup {Resp(200, TRUE, st, m, SomeResult(url)) :
             st \in {199, 300, 403}, m \in {"denied", "gone"}}
    \cup {Resp(299, TRUE, 403, "denied", SomeResult(url))}
    \cup {Resp(e[1], TRUE, e[2], "OK", r) :
             e \in {<<200, 200>>, <<200, 299>>, <<299, 200>>}, r \in ResultsFor(url)}

IOs == {"ok", "open_fails", "read_fails"}

-----------------------------------------------------------------------------
(* The actions.                                                            *)

NoEnv == [method |-> "", args |-> <<>>, ios |-> <<>>, resps |-> <<>>]

\* A call that keeps the credentials it was given as the client's own:
\* self.login = login or self.login, self.key = key or self.key.
CallStoringCredentials(p, m, a, io) ==
    /\ Frame(call, p).pc = "idle"
    /\ m # "upload_file" => io = "ok"
    /\ call' = [call EXCEPT ![p] =
                    StartCall(m, a, io, base_url, login, key, chunk_size, fs)]
    /\ env' = [env EXCEPT ![p] = [method |-> m, args |-> a, ios |-> <<io>>,
                                  resps |-> <<>>]]
    /\ login' = (IF "login" \in DOMAIN a THEN Or(a.login, login) ELSE login)
    /\ key' = (IF "key" \in DOMAIN a THEN Or(a.key, key) ELSE key)
    /\ UNCHANGED <<base_url, timeout, datetime_format, chunk_size, fs>>

\* A caller invokes method m with arguments a on the client.
Call(p, m, a, io) ==
    /\ Frame(call, p).pc = "idle"
    /\ m # "upload_file" => io = "ok"
    /\ call' = [call EXCEPT ![p] =
                    StartCall(m, a, io, base_url, login, key, chunk_size, fs)]
    /\ env' = [env EXCEPT ![p] = [method |-> m, args |-> a, ios |-> <<io>>,
                                  resps |-> <<>>]]
    /\ UNCHANGED <<cfgvars, fs>>

\* The transport answers the request call p awaits; p runs on.
Resume(p, r, io) ==
    LET f == Frame(call, p)
    IN  /\ f.pc = "await"
        /\ io \in {"ok", "open_fails"}
        /\ io = "open_fails" =>
              /\ f.phase = "negotiate"
              /\ RequestOutcome(r).kind = "return"
              /\ "url" \in DOMAIN r.result
        /\ call' = [call EXCEPT ![p] =
                        Continue(f, r, io, base_url, datetime_format, fs)]
        /\ env' = [env EXCEPT ![p].ios = Append(@, io), ![p].resps = Append(@, r)]
        /\ UNCHANGED <<cfgvars, fs>>

\* The garbage collector finalizes the file objects a finished call left
\* open: at some later time, if at all.
Finalize(p) ==
    LET f == Frame(call, p)
    IN  /\ f.pc = "done"
        /\ \E i \in DOMAIN f.handles : ~f.handles[i].closed
        /\ call' = [call EXCEPT ![p].handles =
                        [i \in DOMAIN f.handles |-> [f.handles[i] EXCEPT !.closed = TRUE]]]
        /\ UNCHANGED <<cfgvars, fs, env>>

\* The caller has taken the result or the exception; the slot is free again.
Reset(p) ==
    /\ Frame(call, p).pc = "done"
    /\ call' = [call EXCEPT ![p] = IdleFrame]
    /\ env' = [env EXCEPT ![p] = NoEnv]
    /\ UNCHANGED <<cfgvars, fs>>

\* A direct call of _calculate_sha256(path).
HashFile(p, path, io) ==
    /\ Frame(call, p).pc = "idle"
    /\ LET h == HashFileOutcome(fs, path, chunk_size, io)
       IN  call' = [call EXCEPT ![p] =
                       [IdleFrame EXCEPT !.pc = "done", !.method = "_calculate_sha256",
                                         !.args = [file_path |-> path],
                                         !.handles = h.handles, !.hash = h.hash,
                                         !.trace = <<"hash">>,
                                         !.outcome = IF h.ok THEN Returned(h.hash.hex)
                                                     ELSE OSError]]
    /\ env' = [env EXCEPT ![p] = [method |-> "_calculate_sha256",
                                  args |-> [file_path |-> path], ios |-> <<io>>,
                                  resps |-> <<>>]]
    /\ UNCHANGED <<cfgvars, fs>>

-----------------------------------------------------------------------------
(* The specifications.                                                     *)

\* The constructor, client.py:19-35, with the arguments a caller may give.
Construct(l, k, t, fmt, n) ==
    /\ base_url = BASE_URL
    /\ login = l
    /\ key = k
    /\ timeout = t
    /\ datetime_format = fmt
    /\ chunk_size = n

MainFile == <<1, 0, 1>>

\* The timestamp format and the chunk size act on different methods, so the
\* two are varied together: the defaults, or both set by the caller.
Init ==
    /\ \E l \in {None, Str("dl")}, k \in {None, Str("dk")},
          c \in {<<DATETIME_FORMAT, CHUNK_SIZE>>, <<AltFormat, 2>>} :
            Construct(l, k, TIMEOUT, c[1], c[2])
    /\ fs = [f \in {"f1"} |-> MainFile]
    /\ call = [p \in Slots |-> IdleFrame]
    /\ env = [p \in Slots |-> NoEnv]

CallAny(p) == \E m \in Methods : \E a \in ArgsOf(m) : \E io \in IOs : Call(p, m, a, io)

ResumeAny(p) ==
    /\ Frame(call, p).pc = "await"
    /\ \E r \in Responses(Last(Frame(call, p).sent).url) : \E io \in IOs : Resume(p, r, io)

\* One client, one call at a time.
Next == \E p \in {1} : CallAny(p) \/ ResumeAny(p) \/ Finalize(p) \/ Reset(p)

Spec == Init /\ [][Next]_vars

\* The hashing alone, over every file and chunk size of the bounds.
InitHash ==
    /\ \E n \in ChunkSizes : Construct(None, None, TIMEOUT, DATETIME_FORMAT, n)
    /\ fs \in [{"f1"} -> Contents]
    /\ call = [p \in Slots |-> IdleFrame]
    /\ env = [p \in Slots |-> NoEnv]

NextHash == \E p \in {1} : \E path \in {"f1", "nofile"} : \E io \in IOs : HashFile(p, path, io)

SpecHash == InitHash /\ [][NextHash]_vars

\* Several calls in flight on one client: each slot runs calls of its own,
\* suspended at its awaits while the others run.
ConcMethods == {"get_download_ticket", "upload_file"}

ConcArgs(m) ==
    IF m = "upload_file"
    THEN [file_path : {"f1"}, folder : {None}, httponly : {None},
          login : {None, Str("al")}, key : {None}]
    ELSE [file : {Str("F1")}, login : {None, Str("al")}, key : {None}]

ConcResponses(url) ==
    {ConnError, Resp(200, TRUE, 403, "denied", SomeResult(url))}
    \cup {Resp(200, TRUE, 200, "OK", r) : r \in ResultsFor(url)}

InitConc ==
    /\ Construct(Str("dl"), Str("dk"), TIMEOUT, DATETIME_FORMAT, 2)
    /\ fs = [f \in {"f1"} |-> MainFile]
    /\ call = [p \in Slots |-> IdleFrame]
    /\ env = [p \in Slots |-> NoEnv]

CallConc(p) == \E m \in ConcMethods : \E a \in ConcArgs(m) : Call(p, m, a, "ok")

ResumeConc(p) ==
    /\ Frame(call, p).pc = "await"
    /\ \E r \in ConcResponses(Last(Frame(call, p).sent).url) : Resume(p, r, "ok")

NextConc == \E p \in Slots : CallConc(p) \/ ResumeConc(p) \/ Finalize(p) \/ Reset(p)

SpecConc == InitConc /\ [][NextConc]_vars

-----------------------------------------------------------------------------
(* The properties.                                                         *)

\* A response that passed the HTTP layer and decoded to an envelope.
Decoded(r) == r.conn = "ok" /\ r.http >= 200 /\ r.http <= 299 /\ r.json

\* Its envelope reports success: status in [200,300).
SuccessEnvelope(r) == Decoded(r) /\ r.status >= 200 /\ r.status < 300

\* Its envelope reports failure: status outside [200,300).
FailureEnvelope(r) == Decoded(r) /\ (r.status < 200 \/ r.status >= 300)

\* C1: whenever a call of any endpoint method receives an HTTP-successful
\* response whose envelope status is outside [200,300), the call ends there
\* by raising StreamtapeError with status_code = the envelope's status and
\* message = the envelope's msg; it returns no value.
C1_DomainErrorOnFailureEnvelope ==
    \A p \in Slots :
        \A i \in DOMAIN call[p].recv :
            LET r == call[p].recv[i]
            IN  FailureEnvelope(r) =>
                    /\ call[p].pc = "done"
                    /\ i = Len(call[p].recv)
                    /\ call[p].outcome.kind = "StreamtapeError"
                    /\ call[p].outcome.status_code = r.status
                    /\ call[p].outcome.message = r.msg

\* A thumbnail call answered by an envelope of status 300 has raised.
C1_Witness ==
    /\ call[1].method = "get_thumbnail_image"
    /\ call[1].pc = "done"
    /\ FailureEnvelope(call[1].recv[1])
    /\ call[1].recv[1].status = 300
    /\ call[1].outcome.kind = "StreamtapeError"

\* What strptime gives for the timestamps the remote side sends here, under
\* the two formats: "2020-01-02 03:04:05" and "2021-12-31 23:59:59" are of
\* the form %Y-%m-%d %H:%M:%S, "02/01/2020" of the form %d/%m/%Y.
Datetime(y, mo, d, h, mi, sec) ==
    [year |-> y, month |-> mo, day |-> d, hour |-> h, minute |-> mi, second |-> sec]

Parses(fmt, ts) ==
    \/ fmt = DATETIME_FORMAT /\ ts \in {TS1, TS2}
    \/ fmt = AltFormat /\ ts = TSAlt

ParsedValue(ts) ==
    CASE ts = TS1   -> Datetime(2020, 1, 2, 3, 4, 5)
      [] ts = TS2   -> Datetime(2021, 12, 31, 23, 59, 59)
      [] ts = TSAlt -> Datetime(2020, 1, 2, 0, 0, 0)

\* The response that decides what a finished call gives back: the only one
\* of a single-call method, the transfer's answer for upload_file.
FinalResponse(f) ==
    /\ f.pc = "done"
    /\ f.method \in Methods
    /\ Len(f.recv) = (IF f.method = "upload_file" THEN 2 ELSE 1)

\* The result has the shape the method reads: the fields of the transform
\* in the configured format, the url of the negotiate answer.
WellFormedResult(m, res) ==
    CASE m = "get_account_info" ->
           {"apiid", "signup_at"} \subseteq DOMAIN res /\ Parses(datetime_format, res.signup_at)
      [] m = "get_remote_upload_status" ->
           /\ {"added", "last_update"} \subseteq DOMAIN res
           /\ Parses(datetime_format, res.added)
           /\ Parses(datetime_format, res.last_update)
      [] m = "upload_file" -> "url" \in DOMAIN res \/ "value" \in DOMAIN res
      [] OTHER -> TRUE

\* C2 as stated: a finished call of any endpoint method that received a
\* success envelope has returned that envelope's result (account info and
\* remote upload status: a transform of it) and not raised a Domain Error.
\* Read in the claim's favour: the results are of the shape the method reads
\* and the local file could be opened.
C2_Original ==
    \A p \in Slots :
        \A i \in DOMAIN call[p].recv :
            (/\ call[p].pc = "done"
             /\ SuccessEnvelope(call[p].recv[i])
             /\ WellFormedResult(call[p].method, call[p].recv[i].result)
             /\ call[p].outcome.kind # "OSError") =>
                /\ call[p].outcome.kind = "return"
                /\ call[p].method \notin {"get_account_info", "get_remote_upload_status"}
                      => call[p].outcome.value = call[p].recv[i].result

\* C2, amended: when the last response of a call (the transfer's for
\* upload_file) is a success envelope, the call raises no Domain Error and
\* returns the envelope's result: unchanged for the pass-through methods;
\* for account info with apiid renamed to api_id and signup_at parsed, for
\* remote upload status with added and last_update parsed, when the result
\* has these fields in the configured format, and else the transform's
\* KeyError or ValueError.
C2_ReturnsResultOfFinalSuccess ==
    \A p \in Slots :
        LET f == call[p]
            r == Last(f.recv)
            res == r.result
            out == f.outcome
        IN  (FinalResponse(f) /\ SuccessEnvelope(r)) =>
                /\ out.kind # "StreamtapeError"
                /\ CASE f.method = "get_account_info" ->
                          IF {"apiid", "signup_at"} \subseteq DOMAIN res
                             /\ Parses(datetime_format, res.signup_at)
                          THEN /\ out.kind = "return"
                               /\ DOMAIN out.value = (DOMAIN res \ {"apiid"}) \cup {"api_id"}
                               /\ out.value.api_id = res.apiid
                               /\ out.value.signup_at = ParsedValue(res.signup_at)
                               /\ out.value.email = res.email
                          ELSE out.kind \in {"KeyError", "ValueError"}
                     [] f.method = "get_remote_upload_status" ->
                          IF {"added", "last_update"} \subseteq DOMAIN res
                             /\ Parses(datetime_format, res.added)
                             /\ Parses(datetime_format, res.last_update)
                          THEN /\ out.kind = "return"
                               /\ DOMAIN out.value = DOMAIN res
                               /\ out.value.id = res.id
                               /\ out.value.added = ParsedValue(res.added)
                               /\ out.value.last_update = ParsedValue(res.last_update)
                          ELSE out.kind \in {"KeyError", "ValueError"}
                     [] OTHER ->
                          out = [kind |-> "return", value |-> res]

\* An account info call has returned the renamed and parsed result of an
\* envelope of status 299.
C2_Witness ==
    /\ call[1].method = "get_account_info"
    /\ call[1].pc = "done"
    /\ SuccessEnvelope(call[1].recv[1])
    /\ call[1].recv[1].status = 299
    /\ call[1].outcome.kind = "return"
    /\ call[1].outcome.value.api_id = "X1"

\* A response that failed at the transport: no connection, or not 2xx.
TransportFailure(r) == r.conn # "ok" \/ r.http < 200 \/ r.http > 299

\* C3: a response that fails at the transport level (connection error or an
\* HTTP status that is not 2xx) ends the call at once with a Transport
\* Error, never a Domain Error and never a value, whatever envelope the
\* body holds.
C3_TransportErrorBeforeEnvelope ==
    \A p \in Slots :
        \A i \in DOMAIN call[p].recv :
            TransportFailure(call[p].recv[i]) =>
                /\ call[p].pc = "done"
                /\ i = Len(call[p].recv)
                /\ Len(call[p].sent) = i
                /\ call[p].outcome.kind = "TransportError"

\* A 404 whose body is a failure envelope has ended a call with a
\* Transport Error.
C3_Witness ==
    /\ call[1].pc = "done"
    /\ Len(call[1].recv) = 1
    /\ call[1].recv[1].http = 404
    /\ call[1].recv[1].json
    /\ call[1].recv[1].status = 403
    /\ call[1].outcome.kind = "TransportError"

IsPrefix(s, t) == Len(s) <= Len(t) /\ s = SubSeq(t, 1, Len(s))

TransferHandles(f) == {i \in DOMAIN f.handles : f.handles[i].purpose = "transfer"}

FailureKinds == {"TransportError", "StreamtapeError", "JSONDecodeError"}

\* C4: upload_file takes its steps in the order hash, negotiate (GET
\* /file/ul), open for transfer, transfer (POST); a hash that cannot read
\* the file ends the call with no request sent; a failed negotiate ends it
\* with the file never opened for transfer and no POST; a POST is sent only
\* after a negotiate answered by a success envelope, and goes to the url of
\* that envelope's result (to the base URL when that url is empty).
C4_UploadOrder ==
    \A p \in Slots :
        LET f == call[p]
        IN  f.method = "upload_file" =>
                /\ IsPrefix(f.trace, <<"hash", "negotiate", "open", "transfer">>)
                /\ f.hash = NoHash =>
                      /\ f.sent = <<>>
                      /\ f.pc = "done"
                      /\ f.outcome.kind = "OSError"
                /\ Len(f.sent) >= 1 =>
                      /\ f.hash # NoHash
                      /\ f.sent[1].method = "GET"
                      /\ f.sent[1].url = BASE_URL \o "/file/ul"
                      /\ f.sent[1].params.v.sha256 = Str(f.hash.hex)
                /\ (Len(f.recv) >= 1 /\ ~SuccessEnvelope(f.recv[1])) =>
                      /\ f.pc = "done"
                      /\ f.outcome.kind \in FailureKinds
                      /\ Len(f.sent) = 1
                      /\ TransferHandles(f) = {}
                      /\ f.trace = <<"hash", "negotiate">>
                /\ TransferHandles(f) # {} =>
                      /\ Len(f.recv) >= 1
                      /\ SuccessEnvelope(f.recv[1])
                /\ Len(f.sent) = 2 =>
                      /\ SuccessEnvelope(f.recv[1])
                      /\ f.sent[2].method = "POST"
                      /\ f.sent[2].url = (IF f.recv[1].result.url # ""
                                          THEN f.recv[1].result.url ELSE BASE_URL)
                      /\ f.sent[2].files.v.file1 \in TransferHandles(f)
                      /\ f.trace = <<"hash", "negotiate", "open", "transfer">>

\* An upload has gone through all four steps and ended.
C4_Witness ==
    /\ call[1].method = "upload_file"
    /\ call[1].pc = "done"
    /\ call[1].trace = <<"hash", "negotiate", "open", "transfer">>
    /\ Len(call[1].sent) = 2
    /\ call[1].outcome.kind = "return"

\* C5: the handle opened for hashing is closed once the hashing is over, and
\* once a call has returned or raised, no file handle it opened is open.
C5_HandlesClosed ==
    \A p \in Slots :
        LET f == call[p]
        IN  /\ \A i \in DOMAIN f.handles :
                  f.handles[i].purpose = "hash" => f.handles[i].closed
            /\ f.pc = "done" => \A i \in DOMAIN f.handles : f.handles[i].closed

\* The query key each optional argument is sent under.
OptionalArgs == {"folder", "httponly", "headers", "name", "parent_folder"}

QueryKey(arg) == IF arg = "parent_folder" THEN "pid" ELSE arg

\* C6: an argument that was not supplied (None), and login or key when
\* neither the call nor the client supplies one, is no item of the query of
\* any request the call sends: not with a null value, not as an empty string.
C6_AbsentOmitted ==
    \A p \in Slots :
        LET f == call[p]
        IN  \A i \in DOMAIN f.sent :
                /\ \A k \in DOMAIN f.args \cap OptionalArgs :
                      f.args[k] = None => QueryKey(k) \notin DOMAIN f.sent[i].query
                /\ ("login" \in DOMAIN f.args /\ f.args.login = None /\ login = None)
                      => "login" \notin DOMAIN f.sent[i].query
                /\ ("key" \in DOMAIN f.args /\ f.args.key = None /\ key = None)
                      => "key" \notin DOMAIN f.sent[i].query

\* A credential the call gives, or None when the method takes none.
GivenArg(f, k) == IF k \in DOMAIN f.args THEN f.args[k] ELSE None

\* C7 as stated: every request of every method carries the explicit login
\* and key when the call gives them, the configured defaults when it does
\* not.  Read in the claim's favour: an empty string is not taken for an
\* explicit credential.
C7_Original ==
    \A p \in Slots :
        LET f == call[p]
        IN  f.method \in Methods =>
                \A i \in DOMAIN f.sent :
                    LET q == f.sent[i].query
                    IN  /\ GivenArg(f, "login") \notin {None, Str("")} =>
                              "login" \in DOMAIN q /\ q.login = f.args.login.v
                        /\ GivenArg(f, "key") \notin {None, Str("")} =>
                              "key" \in DOMAIN q /\ q.key = f.args.key.v
                        /\ (GivenArg(f, "login") = None /\ login # None) =>
                              "login" \in DOMAIN q /\ q.login = login.v
                        /\ (GivenArg(f, "key") = None /\ key # None) =>
                              "key" \in DOMAIN q /\ q.key = key.v

\* C7, amended: the API request of every method that takes login and key
\* (all but get_download_link) carries the login and key given to the call
\* when they are given and not empty, else the client's defaults;
\* get_download_link's request and upload_file's transfer POST carry
\* neither.
C7_CredentialPrecedence ==
    \A p \in Slots :
        LET f == call[p]
        IN  (f.method \in Methods /\ Len(f.sent) >= 1) =>
                LET q == f.sent[1].query
                    wantLogin == IF GivenArg(f, "login") \in {None, Str("")}
                                 THEN login ELSE f.args.login
                    wantKey   == IF GivenArg(f, "key") \in {None, Str("")}
                                 THEN key ELSE f.args.key
                IN  /\ f.method \in CredentialMethods =>
                          /\ f.sent[1].params.v.login = wantLogin
                          /\ f.sent[1].params.v.key = wantKey
                          /\ wantLogin # None => q.login = wantLogin.v
                          /\ wantKey # None => q.key = wantKey.v
                    /\ f.method = "get_download_link" =>
                          {"login", "key"} \cap DOMAIN q = {}
                    /\ Len(f.sent) = 2 =>
                          {"login", "key"} \cap DOMAIN f.sent[2].query = {}

\* A call with an explicit login on a client with another default has sent
\* the explicit one.
C7_Witness ==
    /\ call[1].method = "get_file_info"
    /\ call[1].args.login = Str("al")
    /\ login = Str("dl")
    /\ call[1].args.key = None
    /\ key = Str("dk")
    /\ call[1].sent[1].query.login = "al"
    /\ call[1].sent[1].query.key = "dk"

\* C8: a call of a single-call method sends exactly one request, a call of
\* upload_file at most two (a GET, then at most one POST); a response that
\* is not a success envelope ends the call with no further request, and a
\* finished call has no request without a response.
C8_NoRetries ==
    \A p \in Slots :
        LET f == call[p]
        IN  f.method \in Methods =>
                /\ Len(f.recv) <= Len(f.sent)
                /\ Len(f.sent) <= Len(f.recv) + 1
                /\ f.method \in SingleCallMethods => Len(f.sent) = 1
                /\ f.method = "upload_file" =>
                      /\ Len(f.sent) <= 2
                      /\ Len(f.sent) >= 1 => f.sent[1].method = "GET"
                      /\ Len(f.sent) = 2 => f.sent[2].method = "POST"
                /\ \A i \in DOMAIN f.recv :
                      ~SuccessEnvelope(f.recv[i]) =>
                          /\ Len(f.sent) = i
                          /\ f.pc = "done"
                          /\ f.outcome.kind \in FailureKinds
                /\ f.pc = "done" => Len(f.sent) = Len(f.recv)

\* A single-call method has failed on a connection error after one request.
C8_Witness ==
    /\ call[1].method = "delete_file"
    /\ call[1].pc = "done"
    /\ call[1].recv = <<ConnError>>
    /\ Len(call[1].sent) = 1
    /\ call[1].outcome.kind = "TransportError"

\* The frame of a call that runs alone on the client: the method started
\* with the call's own arguments and continued with the call's own
\* responses, one after the other.
RunAlone(e) ==
    LET f1 == StartCall(e.method, e.args, e.ios[1], base_url, login, key, chunk_size, fs)
        f2 == Continue(f1, e.resps[1], e.ios[2], base_url, datetime_format, fs)
        f3 == Continue(f2, e.resps[2], e.ios[3], base_url, datetime_format, fs)
    IN  CASE Len(e.resps) = 0 -> f1
          [] Len(e.resps) = 1 -> f2
          [] Len(e.resps) = 2 -> f3

\* A frame without the finalizer's work on its handles.
BeforeFinalize(f) ==
    [f EXCEPT !.handles = [i \in DOMAIN f.handles |-> f.handles[i].purpose]]

\* C9: with several calls in flight on one client, interleaved at their
\* awaits, every call is in the state it would be in had it run alone: it
\* has sent the URL and parameters built from its own arguments, and its
\* phase, result or exception follow from its own responses.
C9_CallsIsolated ==
    \A p \in Slots :
        IF env[p].method = ""
        THEN call[p] = IdleFrame
        ELSE /\ BeforeFinalize(call[p]) = BeforeFinalize(RunAlone(env[p]))
             /\ call[p].method = env[p].method
             /\ call[p].args = env[p].args
             /\ call[p].recv = env[p].resps
             /\ call[p].sent[1].url = BASE_URL \o EndpointOf(env[p].method)
             /\ call[p].sent[1].params.v.login = Or(env[p].args.login, login)

\* An upload suspended at its transfer while another call, started with
\* another login, has ended with a Domain Error.
C9_Witness ==
    /\ call[1].method = "upload_file"
    /\ call[1].pc = "await"
    /\ call[1].phase = "transfer"
    /\ call[1].args.login = None
    /\ call[2].method = "get_download_ticket"
    /\ call[2].args.login = Str("al")
    /\ call[2].pc = "done"
    /\ call[2].outcome.kind = "StreamtapeError"

\* The file a finished _calculate_sha256 has hashed.
HashedFile(f) == fs[f.args.file_path]

C11_ConfigurationUnchanged ==
    /\ [](base_url = BASE_URL /\ timeout = TIMEOUT)
    /\ [][/\ base_url' = base_url
          /\ login' = login
          /\ key' = key
          /\ timeout' = timeout
          /\ datetime_format' = datetime_format
          /\ chunk_size' = chunk_size]_vars

\* An upload called with its own login on a client with another default
\* has sent its transfer to the negotiated URL and ended, and the client
\* still has its default login and the base URL.
C11_Witness ==
    /\ call[1].method = "upload_file"
    /\ call[1].pc = "done"
    /\ call[1].args.login = Str("al")
    /\ Len(call[1].sent) = 2
    /\ call[1].sent[1].query.login = "al"
    /\ call[1].sent[2].url = UploadUrl
    /\ login = Str("dl")
    /\ base_url = BASE_URL

====
